---- MODULE Spec2Model ----
(***************************************************************************)
(* A model of the XRP buy-and-sell agent: the position store               *)
(* (data/manageData.ts), the target ladder evaluator (processTokens), the  *)
(* ticket cache (xrpl/ticket.ts), the acquisition trigger (buyTokens),     *)
(* the WebSocket manager and the webhook queue (utils/discord.ts).         *)
(*                                                                         *)
(* Numbers.  The code computes in IEEE doubles; the model computes in      *)
(* integers and keeps every quantity exact:                                *)
(*   - token amounts are whole tokens, XRP amounts whole XRP;              *)
(*   - a price p stands for p/100 XRP per token;                           *)
(*   - TARGETn and TARGETn_PERC are the percent numbers of the .env file;  *)
(*     the divisions by 100 of the code are applied where it applies them. *)
(***************************************************************************)
EXTENDS Integers, Sequences, FiniteSets, TLC

\* ------------------------------------------------------------ bounds
MaxPrice == 4           \* prices 0..MaxPrice, in 1/100 XRP per token
MaxProceeds == 1        \* XRP delivered by one sell: 0..MaxProceeds

MaxTicketSeq == 15      \* the ledger issues ticket sequences 1..MaxTicketSeq
BurstSize == 2          \* iterations of the buy burst kept (the code loops 30 times)
MaxEvents == 4          \* notification events enqueued over a run

NumTargets == 10        \* processTokens builds ten target slots
maxReconnectAttempts == 10   \* WebSocketManager.maxReconnectAttempts
LowWaterMark == 10      \* updateTicketCache: ticketCache.length < 10
TicketCount == 5        \* createTicket: TicketCount: 5

Keys == {"TKA", "TKB"}   \* the (currency, issuer, wallet) triples seen
Slots == 1..NumTargets
Prices == 0..MaxPrice
SellResults == 0..MaxProceeds
TokensDelivered == {100}
XrpPaid == {1}
\* What a direct caller of update() passes as tokensBalance and as target field.
StoreBalances == {0, 50}
StoreFields == {1, 2}

\* Number(undefined), the value of Number(process.env.X) for an X the .env
\* file does not set; it stands for NaN and enters no arithmetic.
NaN == -1

\* The .env files the model starts from: TARGETn / TARGETn_PERC, n = 1..10.
EnvFiles ==
  { [TARGET |-> [n \in Slots |-> 200 * n], PERC |-> [n \in Slots |-> 50]],
    [TARGET |-> [n \in Slots |-> 200 + 100 * n], PERC |-> [n \in Slots |-> 30]],
    [TARGET |-> [n \in Slots |-> 100 + 50 * n], PERC |-> [n \in Slots |-> 10]],
    \* TARGET1 left empty: Number('') is 0
    [TARGET |-> [n \in Slots |-> IF n = 1 THEN 0 ELSE 200 * n],
     PERC |-> [n \in Slots |-> 50]],
    \* only TARGET1 and TARGET1_PERC are set
    [TARGET |-> [n \in Slots |-> IF n = 1 THEN 200 ELSE NaN],
     PERC |-> [n \in Slots |-> IF n = 1 THEN 50 ELSE NaN]] }

Issuers == {"rA", "rB"}  \* the accounts whose AccountSet / TrustSet events arrive
RefillTasks == Issuers \cup {"main"}   \* who called updateTicketCache
\* The tickets the account holds on the ledger when the process starts.
InitialLedgers == {{}, {1}, 1..LowWaterMark}

\* The activations of reconnect() over a run, one per 'disconnected' handler
\* call, in the order they are started.
ChainOrder == <<"ch1", "ch2">>
Chains == {ChainOrder[n] : n \in 1..Len(ChainOrder)}
\* Client objects: enough for every task to hold one and leave one behind.
Clients == 1..(2 * Len(ChainOrder) + 4)

\* The activations of processQueue that can be alive at once, in the order they
\* are taken.
LoopOrder == <<"w1", "w2">>
Loops == {LoopOrder[n] : n \in 1..Len(LoopOrder)}

NoEnv == [TARGET |-> [n \in Slots |-> 0], PERC |-> [n \in Slots |-> 0]]

VARIABLES
  env,          \* process.env as read by dotenv.config()
  profits,      \* the content of profits.json: a sequence of position records
  evPc,         \* processTokens: "boot", "idle" (timer pending), "price", "sell"
  data,         \* processTokens: the snapshot readFile() returned
  t,            \* processTokens: index in data of the token being processed
  i,            \* processTokens: target index (1-based) of the sell in flight
  tokenValue,   \* processTokens: the price infoAmm returned
  passFired,    \* history: the slots marked in this pass, as <<key, slot, lowest
                \* unachieved slot before, price reached the next slot's target>>
  storeCall,    \* history: the last call a direct caller made to the store, as
                \* <<function, key, outcome, a notification was sent>>
  timers,       \* startTokenMonitor: calls of runProcessTokens that are due (the
                \* first, direct call and the setTimeout callbacks pending)
  inFlight,     \* history: passes of processTokens started and not yet settled
  sellResult,   \* processTokens: what the last swapTokentoXRPWS returned (-1: none
                \* has returned yet)
  sent,         \* history: the calls of sendMessageSell made by update() in this
                \* pass, as <<key, target, soldTokens, balance, sumProfit>>
  ledgerSells,  \* history: the <<key, target>> whose sell transaction the ledger
                \* has applied
  realized      \* history: per key, the sum of what the sells returned with
                \* which a target of the position was marked achieved

passVars == <<timers, inFlight>>
sellVars == <<sellResult, sent, ledgerSells, realized>>
evalVars == <<env, profits, evPc, data, t, i, tokenValue, passFired, storeCall,
              passVars, sellVars>>

VARIABLES
  ledgerTickets,        \* ledger: the account's outstanding ticket sequences
  ledgerNextSeq,        \* ledger: the next sequence a TicketCreate gets
  ledgerTrust,          \* ledger: issuers the account holds a trust line to
  ticketCache,          \* ticket.ts: ticketCache
  mutexOwner,           \* ticket.ts: mutex ("" when free)
  mainPc,               \* main(): "genesis", "refill", "listening"
  monitorAccounts,      \* buyTokens.ts: monitorAccounts
  processedTrustLines,  \* buyTokens.ts: processedTrustLines
  bpc,                  \* buyTokens per issuer: "none", "lock", "excl", "trust",
                        \* "burst", "done"
  ticketSequence1,      \* buyTokens per issuer: the reserved ticket, 0 for null
  burstI,               \* buyTokens per issuer: swaps started by the burst loop
  rpc,                  \* updateTicketCache per caller: "idle", "timer", "request",
                        \* "response", "create", "end"
  rsnap,                \* updateTicketCache per caller: the account_objects answer
  revPc,                \* cancelSpecificTrustLine per issuer: "none", "timer",
                        \* "running", "done"
  txs,                  \* history: the TrustSet and Payment transactions the
                        \* buy sequences submitted, <<type, issuer, id, ticket>>
  sinceRefill,          \* history: issuers whose reserve ran since the pool was
                        \* last replaced
  poolAtRefill,         \* history: the pool as last replaced
  ignoredTrustSets      \* history: the issuers a TrustSet event with a LimitAmount
                        \* arrived for while they were not in monitorAccounts

ledgerVars == <<ledgerTickets, ledgerNextSeq, ledgerTrust>>
buyVars == <<ledgerVars, ticketCache, mutexOwner, mainPc, monitorAccounts,
             processedTrustLines, bpc, ticketSequence1, burstI, rpc, rsnap, revPc,
             txs, sinceRefill, poolAtRefill, ignoredTrustSets>>

VARIABLES
  cstate,             \* xrpl Client objects: "free" (not allocated), "connecting",
                      \* "connected", "down" (dropped), "failed" (connect rejected)
  listeners,          \* per Client: how many times setupListeners registered on it
  subscribed,         \* Clients whose connection carries the transactions
                      \* subscription and the transaction handler of main()
  mgrClient,          \* WebSocketManager.client (0 for null)
  reconnectAttempts,  \* WebSocketManager.reconnectAttempts
  wsMainPc,           \* main(): "start", "connecting", "ready", "listening", "failed"
  mainClient,         \* main(): const client (0 before getClient returned)
  compPc,             \* another component calling getClient: "idle", "connecting",
                      \* "returned", "threw"
  chPc,               \* reconnect() per activation: "free", "delay", "connecting",
                      \* "end", "gaveup"
  mine,               \* getClient per task: the Client whose connect() it awaits
  pending             \* buyTokens: the Client a request of a buy sequence is in
                      \* flight on (0: none)

wsVars == <<cstate, listeners, subscribed, mgrClient, reconnectAttempts, wsMainPc,
            mainClient, compPc, chPc, mine, pending>>

VARIABLES
  queue,          \* WebhookQueue.queue: the events waiting, by their enqueue number
  isProcessing,   \* WebhookQueue.isProcessing
  wpc,            \* processQueue per activation: "free", "post", "sleep"
  enqueued,       \* history: how many events addToQueue was called with
  attempts,       \* history: the events whose axios.post was started, in order
  results,        \* history: the outcomes of the posts that settled, in order
  starts          \* history: how many times processQueue entered its loop

notifyVars == <<queue, isProcessing, wpc, enqueued, attempts, results, starts>>

vars == <<evalVars, buyVars, wsVars, notifyVars>>

\* ------------------------------------------------------------ config/env.ts
\* config.TARGETn: every one of the ten is Number(process.env.TARGET1).
configTARGET(n) == env.TARGET[1]

\* config.TARGETn_PERC: every one of the ten is Number(process.env.TARGET1_PERC).
configTARGET_PERC(n) == env.PERC[1]

\* ------------------------------------------------------------ manageData.ts
\* exist(currency, issuer, wallet)
exist(file, k) == \E n \in 1..Len(file) : file[n].key = k

\* findIndex of update(): the first index with the key, 0 for -1
findIndex(file, k) ==
  IF exist(file, k) THEN CHOOSE n \in 1..Len(file) :
                           file[n].key = k /\ \A m \in 1..(n - 1) : file[m].key # k
  ELSE 0

\* The record add() pushes.
newRecord(k, buyAmount, tokens) ==
  [key |-> k, buyAmount |-> buyAmount, sellAmount |-> 0,
   totalTokensInicial |-> tokens, tokensBalance |-> tokens,
   achieved |-> [n \in Slots |-> FALSE]]

\* Mutant: add() does not look for the key.
add_always(file, k, buyAmount, tokens) == Append(file, newRecord(k, buyAmount, tokens))

\* add(): appends the record unless the key exists.
add(file, k, buyAmount, tokens) ==
  IF ~exist(file, k) THEN Append(file, newRecord(k, buyAmount, tokens)) ELSE file

\* remove(): the records with another key.
remove(file, k) == SelectSeq(file, LAMBDA entry : entry.key # k)

\* Mutant: update() takes every key as found.
found_always(file, k) == TRUE

\* if (index !== -1)
found(file, k) == findIndex(file, k) # 0

\* Mutant: the field of the next target is passed.
fieldOf_next(n) == IF n < NumTargets THEN n + 1 ELSE n

\* The field name processTokens passes for target index n: `target${n}Achieved`.
fieldOf(n) == n

\* Mutant: update() writes the flags anew, only the extra field set.
update_reset(file, k, sellAmount, tokensBalance, field) ==
  LET index == findIndex(file, k) IN
  [file EXCEPT ![index].sellAmount = sellAmount,
               ![index].tokensBalance = tokensBalance,
               ![index].achieved = [n \in Slots |-> n = field]]

\* update(): sets sellAmount, tokensBalance and the extra field of the record
\* found; the caller handles index = -1 (the throw).
update(file, k, sellAmount, tokensBalance, field) ==
  LET index == findIndex(file, k) IN
  [file EXCEPT ![index].sellAmount = sellAmount,
               ![index].tokensBalance = tokensBalance,
               ![index].achieved[field] = TRUE]

\* ------------------------------------------------------------ processTokens
\* Mutant: every price reaches every target.
targetReached_always(token, n, p) == TRUE

\* tokenValue >= initialUnitValue * multiplier, with tokenValue = p/100,
\* initialUnitValue = buyAmount / totalTokensInicial, multiplier = TARGET/100.
targetReached(token, n, p) ==
  p * token.totalTokensInicial >= token.buyAmount * configTARGET(n)

\* Mutant: the check of the previous target is left out.
prevUnachieved_never(token, n) == FALSE

\* i > 0 && !targets[i - 1].achieved  (n is 1-based)
prevUnachieved(token, n) == n > 1 /\ ~token.achieved[n - 1]

\* Mutant: the fraction is taken of the current balance.
tokensToSell_ofBalance(token, n) ==
  (token.tokensBalance * configTARGET_PERC(n)) \div 100

\* const tokensToSell = totalTokensInicial * sellPercentage
tokensToSell(token, n) == (token.totalTokensInicial * configTARGET_PERC(n)) \div 100

\* Mutant: the sold tokens are added.
newBalance_plus(token, n) == token.tokensBalance + tokensToSell(token, n)

\* const newBalance = tokensBalance - tokensToSell
newBalance(token, n) == token.tokensBalance - tokensToSell(token, n)

\* Mutant: a sell that delivered nothing counts as well.
positive_orZero(result) == result >= 0

\* if (sellResult > 0)
positive(result) == result > 0

\* Mutant: the proceeds of this sell replace the sum.
sumProfit_replace(token, result) == result

\* (token.sellAmount || 0) + sellResult
sumProfit(token, result) == token.sellAmount + result

\* The arguments update() passes on to sendMessageSell: key, target,
\* sellResult (the tokens sold), tokensBalance, sellAmount.
sellMessage(token, n, result) ==
  <<token.key, n, tokensToSell(token, n), newBalance(token, n),
    sumProfit(token, result)>>

\* The Payment swapTokentoXRPWS builds for the sell of target n and hands to
\* client.autofill: SendMax.value is tokensToSell, and there is no
\* TicketSequence field (0), so autofill fills in the account Sequence.
swapTxData(token, n) ==
  [TransactionType |-> "Payment", key |-> token.key,
   SendMax |-> tokensToSell(token, n), TicketSequence |-> 0]

\* The for loop from index n on, up to its next await: the index of the target
\* whose sell it starts, 0 if the loop ends without one.
RECURSIVE walk(_, _, _)
walk(token, n, p) ==
  IF n > NumTargets THEN 0
  ELSE IF prevUnachieved(token, n) THEN 0                   \* break
  ELSE IF token.achieved[n] THEN walk(token, n + 1, p)      \* continue
  ELSE IF targetReached(token, n, p) /\ token.tokensBalance > 0 THEN n
  ELSE walk(token, n + 1, p)

lowestUnachieved(rec) ==
  IF \E n \in Slots : ~rec.achieved[n]
  THEN CHOOSE n \in Slots : ~rec.achieved[n] /\ \A m \in 1..(n - 1) : rec.achieved[m]
  ELSE 0

\* Mutant: no next call is scheduled.
rearm_never(settled) == 0

\* Mutant: the next call is scheduled when a pass starts as well.
rearm_always(settled) == 1

\* .finally(() => setTimeout(runProcessTokens, 10 * 1000)): the timers a step of
\* a pass sets, by whether the promise of processTokens settled in it.
rearm(settled) == IF settled THEN 1 ELSE 0

\* After a token is finished: on to the next one of the snapshot, or the pass
\* ends, the promise settles and the next call is scheduled.
nextToken ==
  IF t < Len(data)
  THEN /\ t' = t + 1
       /\ evPc' = "price"
       /\ UNCHANGED <<data, passVars>>
  ELSE /\ t' = 0
       /\ evPc' = "idle"
       /\ data' = <<>>
       /\ timers' = timers + rearm(TRUE)
       /\ inFlight' = inFlight - 1

\* The price of the history record: did it also reach the target after n?
nextReached(token, n, p) == n < NumTargets /\ targetReached(token, n + 1, p)

\* dotenv.config(): the process reads its configuration once.
LoadConfig ==
  /\ evPc = "boot"
  /\ env' \in EnvFiles
  /\ evPc' = "idle"
  /\ timers' = 1
  /\ UNCHANGED <<profits, data, t, i, tokenValue, passFired, storeCall, inFlight>>
  /\ UNCHANGED sellVars
  /\ UNCHANGED <<buyVars, wsVars, notifyVars>>

\* newToken -> add(): a confirmed acquisition is recorded.
NewToken(k, buyAmount, tokens) ==
  /\ evPc # "boot"
  /\ profits' = add(profits, k, buyAmount, tokens)
  /\ UNCHANGED <<env, evPc, data, t, i, tokenValue, passFired, storeCall, passVars>>
  /\ UNCHANGED sellVars
  /\ UNCHANGED <<buyVars, wsVars, notifyVars>>

\* runProcessTokens: the timer fires, processTokens reads the file.
StartPass ==
  /\ timers > 0
  /\ passFired' = {}
  /\ sent' = {}
  /\ i' = 0
  /\ tokenValue' = 0
  /\ IF Len(profits) = 0
     THEN /\ timers' = timers - 1 + rearm(TRUE)
          /\ UNCHANGED <<evPc, data, t, inFlight>>
     ELSE /\ data' = profits
          /\ t' = 1
          /\ evPc' = "price"
          /\ timers' = timers - 1 + rearm(FALSE)
          /\ inFlight' = inFlight + 1
  /\ UNCHANGED <<env, profits, storeCall, sellResult, ledgerSells, realized>>
  /\ UNCHANGED <<buyVars, wsVars, notifyVars>>

\* infoAmm resolved with price p (0 when the request failed); the loop runs to
\* its first sell or to its end.
PriceFetched(p) ==
  /\ evPc = "price"
  /\ LET n == walk(data[t], 1, p) IN
     IF n > 0
     THEN /\ i' = n
          /\ tokenValue' = p
          /\ evPc' = "sell"
          /\ UNCHANGED <<data, t, passVars>>
     ELSE /\ i' = 0
          /\ tokenValue' = 0
          /\ nextToken
  /\ UNCHANGED <<env, profits, passFired, storeCall, sellVars>>
  /\ UNCHANGED <<buyVars, wsVars, notifyVars>>

\* processTokens from the return of swapTokentoXRPWS with result (0: failed,
\* rejected or nothing delivered) to its next await.
afterSell(result) ==
  /\ evPc = "sell"
  /\ sellResult' = result
  /\ realized' = IF positive(result) /\ exist(profits, data[t].key)
                 THEN [realized EXCEPT ![data[t].key] = @ + result]
                 ELSE realized
  /\ LET token == data[t] IN
     IF positive(result)
     THEN IF exist(profits, token.key)
          THEN /\ profits' = update(profits, token.key, sumProfit(token, result),
                                    newBalance(token, i), fieldOf(i))
               /\ sent' = sent \cup {sellMessage(token, i, result)}
               /\ passFired' = passFired \cup
                    {<<token.key, fieldOf(i),
                       lowestUnachieved(profits[findIndex(profits, token.key)]),
                       nextReached(token, i, tokenValue)>>}
               /\ i' = 0
               /\ tokenValue' = 0
               /\ nextToken                                   \* break
          ELSE /\ UNCHANGED <<profits, passFired, sent>>      \* update threw
               /\ LET n == walk(token, i + 1, tokenValue) IN
                  IF n > 0 THEN i' = n /\ UNCHANGED <<evPc, data, t, tokenValue, passVars>>
                  ELSE i' = 0 /\ tokenValue' = 0 /\ nextToken
     ELSE /\ UNCHANGED <<profits, passFired, sent>>
          /\ LET n == walk(token, i + 1, tokenValue) IN
             IF n > 0 THEN i' = n /\ UNCHANGED <<evPc, data, t, tokenValue, passVars>>
             ELSE i' = 0 /\ tokenValue' = 0 /\ nextToken
  /\ UNCHANGED <<env, storeCall>>
  /\ UNCHANGED <<buyVars, wsVars, notifyVars>>

\* swapTokentoXRPWS resolved with result.
SellReturned(result) ==
  /\ afterSell(result)
  /\ UNCHANGED ledgerSells

\* What the ledger did with the Payment of a sell that returned result: proceeds
\* come from an applied transaction only; 0 is returned for a transaction that
\* was not applied, and also for one that was applied while submitAndWait threw
\* or while the metadata held no DeliveredAmount.
ledgerOutcomes(result) == IF result > 0 THEN {TRUE} ELSE BOOLEAN

\* The same step, with what the ledger did with the transaction kept on record.
SellReturnedSeen(result, applied) ==
  /\ applied \in ledgerOutcomes(result)
  /\ afterSell(result)
  /\ ledgerSells' = IF applied THEN ledgerSells \cup {<<data[t].key, i>>}
                    ELSE ledgerSells

\* ------------------------------------------------------------ xrpl/ticket.ts
\* Mutant: the comparison of the sort is turned round.
RECURSIVE sortAscending_descending(_)
sortAscending_descending(S) ==
  IF S = {} THEN <<>>
  ELSE LET m == CHOOSE x \in S : \A y \in S : x >= y
       IN <<m>> \o sortAscending_descending(S \ {m})

\* tickets.map(TicketSequence).sort((a, b) => a - b)
RECURSIVE sortAscending(_)
sortAscending(S) ==
  IF S = {} THEN <<>>
  ELSE LET m == CHOOSE x \in S : \A y \in S : x <= y
       IN <<m>> \o sortAscending(S \ {m})

\* ticketCache.length > 0 ? ticketCache.shift() || null : null   (0 for null)
shiftResult(cache) == IF Len(cache) > 0 THEN cache[1] ELSE 0

\* Mutant: the ticket is read and left in the cache.
shiftRest_peek(cache) == cache

\* What shift() leaves in the cache.
shiftRest(cache) == IF Len(cache) > 0 THEN Tail(cache) ELSE cache

Range(q) == {q[n] : n \in 1..Len(q)}

\* The ledger applies a transaction carrying ticket tk: the ticket is used up.
consumeTicket(tk) == ledgerTickets' = ledgerTickets \ {tk}

\* main(): the process starts against a ledger holding some tickets and calls
\* updateTicketCache.
Genesis ==
  /\ mainPc = "genesis"
  /\ ledgerTickets' \in InitialLedgers
  /\ ledgerNextSeq' = Cardinality(ledgerTickets') + 1
  /\ mainPc' = "refill"
  /\ rpc' = [rpc EXCEPT !["main"] = "request"]
  /\ UNCHANGED <<ledgerTrust, ticketCache, mutexOwner, monitorAccounts,
                 processedTrustLines, bpc, ticketSequence1, burstI, rsnap, revPc,
                 txs, sinceRefill, poolAtRefill>>
  /\ UNCHANGED ignoredTrustSets
  /\ UNCHANGED <<evalVars, wsVars, notifyVars>>

\* main(): updateTicketCache returned; setupListeners subscribes and registers
\* the transaction handler.
MainListen ==
  /\ mainPc = "refill"
  /\ rpc["main"] = "end"
  /\ mainPc' = "listening"
  /\ UNCHANGED <<ledgerVars, ticketCache, mutexOwner, monitorAccounts,
                 processedTrustLines, bpc, ticketSequence1, burstI, rpc, rsnap,
                 revPc, txs, sinceRefill, poolAtRefill>>
  /\ UNCHANGED ignoredTrustSets
  /\ UNCHANGED <<evalVars, wsVars, notifyVars>>

\* Mutant: the catch of updateTicketCache throws the error on.
caught_rethrow(stage) == "threw"

\* catch (error) { logger.error(...) } of updateTicketCache and of createTicket:
\* where the function stands after an await (stage: "request" or "create")
\* rejected; it returns.
caught(stage) == "end"

\* updateTicketCache: the ledger answers account_objects (ok), or the request
\* fails and the catch returns.
RefillAnswer(r, ok) ==
  /\ rpc[r] = "request"
  /\ IF ok
     THEN /\ rsnap' = [rsnap EXCEPT ![r] = ledgerTickets]
          /\ rpc' = [rpc EXCEPT ![r] = "response"]
     ELSE /\ rpc' = [rpc EXCEPT ![r] = caught("request")]
          /\ UNCHANGED rsnap
  /\ UNCHANGED <<ledgerVars, ticketCache, mutexOwner, mainPc, monitorAccounts,
                 processedTrustLines, bpc, ticketSequence1, burstI, revPc, txs,
                 sinceRefill, poolAtRefill>>
  /\ UNCHANGED ignoredTrustSets
  /\ UNCHANGED <<evalVars, wsVars, notifyVars>>

\* updateTicketCache: the answer arrives; the cache is replaced by the sorted
\* sequences, and createTicket is called when fewer than 10 are cached.
RefillAssign(r) ==
  /\ rpc[r] = "response"
  /\ ticketCache' = sortAscending(rsnap[r])
  /\ poolAtRefill' = ticketCache'
  /\ sinceRefill' = {}
  /\ rsnap' = [rsnap EXCEPT ![r] = {}]
  /\ rpc' = [rpc EXCEPT ![r] = IF Len(ticketCache') < LowWaterMark
                               THEN "create" ELSE "end"]
  /\ UNCHANGED <<ledgerVars, mutexOwner, mainPc, monitorAccounts,
                 processedTrustLines, bpc, ticketSequence1, burstI, revPc, txs>>
  /\ UNCHANGED ignoredTrustSets
  /\ UNCHANGED <<evalVars, wsVars, notifyVars>>

\* createTicket resolved: the TicketCreate was applied (ok) and the ledger holds
\* five more tickets, or it failed; the cache is not touched.
CreateTicketDone(r, ok) ==
  /\ rpc[r] = "create"
  /\ rpc' = [rpc EXCEPT ![r] = IF ok THEN "end" ELSE caught("create")]
  /\ IF ok /\ ledgerNextSeq + TicketCount - 1 <= MaxTicketSeq
     THEN /\ ledgerTickets' =
               ledgerTickets \cup (ledgerNextSeq..(ledgerNextSeq + TicketCount - 1))
          /\ ledgerNextSeq' = ledgerNextSeq + TicketCount
     ELSE UNCHANGED <<ledgerTickets, ledgerNextSeq>>
  /\ UNCHANGED <<ledgerTrust, ticketCache, mutexOwner, mainPc, monitorAccounts,
                 processedTrustLines, bpc, ticketSequence1, burstI, rsnap, revPc,
                 txs, sinceRefill, poolAtRefill>>
  /\ UNCHANGED ignoredTrustSets
  /\ UNCHANGED <<evalVars, wsVars, notifyVars>>

\* ------------------------------------------------------------ utils/buyTokens.ts
\* An AccountSet transaction of account a arrives; qualifies: its Domain decodes
\* to a name ending in toml.firstledger.net and not starting with https://.
OnAccountSet(a, qualifies) ==
  /\ mainPc = "listening"
  /\ monitorAccounts' = IF qualifies THEN monitorAccounts \cup {a} ELSE monitorAccounts
  /\ UNCHANGED <<ledgerVars, ticketCache, mutexOwner, mainPc, processedTrustLines,
                 bpc, ticketSequence1, burstI, rpc, rsnap, revPc, txs, sinceRefill,
                 poolAtRefill>>
  /\ UNCHANGED ignoredTrustSets
  /\ UNCHANGED <<evalVars, wsVars, notifyVars>>

\* Mutant: the issuer is never found in processedTrustLines.
alreadyProcessed_never(a) == FALSE

\* processedTrustLines.has(issuer)
alreadyProcessed(a) == a \in processedTrustLines

\* Mutant: every issuer counts as monitored.
monitored_always(a) == TRUE

\* monitorAccounts.has(limitAmount.issuer)
monitored(a) == a \in monitorAccounts

\* The TrustSet branch of buyTokens for a transaction with LimitAmount.issuer = a
\* (hasLimit: it has a LimitAmount), up to the call of getTicketFromCache.
trustSetBranch(a, hasLimit) ==
  /\ mainPc = "listening"
  /\ IF hasLimit /\ monitored(a) /\ ~alreadyProcessed(a)
     THEN /\ processedTrustLines' = processedTrustLines \cup {a}
          /\ bpc' = [bpc EXCEPT ![a] = "lock"]
     ELSE UNCHANGED <<processedTrustLines, bpc>>
  /\ UNCHANGED <<ledgerVars, ticketCache, mutexOwner, mainPc, monitorAccounts,
                 ticketSequence1, burstI, rpc, rsnap, revPc, txs, sinceRefill,
                 poolAtRefill>>
  /\ UNCHANGED <<evalVars, wsVars, notifyVars>>

\* A TrustSet transaction with LimitAmount.issuer = a arrives.
OnTrustSet(a, hasLimit) ==
  /\ trustSetBranch(a, hasLimit)
  /\ UNCHANGED ignoredTrustSets

\* The same, with the events of issuers that are not monitored kept on record.
OnTrustSetSeen(a, hasLimit) ==
  /\ trustSetBranch(a, hasLimit)
  /\ ignoredTrustSets' = IF hasLimit /\ a \notin monitorAccounts
                         THEN ignoredTrustSets \cup {a} ELSE ignoredTrustSets

\* getTicketFromCache: mutex.runExclusive acquires the mutex.
MutexAcquire(a) ==
  /\ bpc[a] = "lock"
  /\ mutexOwner = ""
  /\ mutexOwner' = a
  /\ bpc' = [bpc EXCEPT ![a] = "excl"]
  /\ UNCHANGED <<ledgerVars, ticketCache, mainPc, monitorAccounts,
                 processedTrustLines, ticketSequence1, burstI, rpc, rsnap, revPc,
                 txs, sinceRefill, poolAtRefill>>
  /\ UNCHANGED ignoredTrustSets
  /\ UNCHANGED <<evalVars, wsVars, notifyVars>>

\* getTicketFromCache: the callback shifts the cache, the mutex is released, and
\* buyTokens goes on to setTrustLine.
RunExclusive(a) ==
  /\ bpc[a] = "excl"
  /\ mutexOwner = a
  /\ ticketSequence1' = [ticketSequence1 EXCEPT ![a] = shiftResult(ticketCache)]
  /\ ticketCache' = shiftRest(ticketCache)
  /\ mutexOwner' = ""
  /\ sinceRefill' = sinceRefill \cup {a}
  /\ bpc' = [bpc EXCEPT ![a] = "trust"]
  /\ UNCHANGED <<ledgerVars, mainPc, monitorAccounts, processedTrustLines, burstI,
                 rpc, rsnap, revPc, txs, poolAtRefill>>
  /\ UNCHANGED ignoredTrustSets
  /\ UNCHANGED <<evalVars, wsVars, notifyVars>>

\* setTrustLine resolved. outcome: "applied" (tesSUCCESS), "rejected" (submitted,
\* another result) or "unsent" (autofill or the connection threw).  buyTokens
\* ignores the boolean it returns.
TrustLineDone(a, outcome) ==
  /\ bpc[a] = "trust"
  /\ ledgerTrust' = IF outcome = "applied" THEN ledgerTrust \cup {a} ELSE ledgerTrust
  /\ txs' = IF outcome # "unsent" THEN txs \cup {<<"TrustSet", a, 0, 0>>} ELSE txs
  /\ bpc' = [bpc EXCEPT ![a] = IF ticketSequence1[a] # 0 THEN "burst" ELSE "done"]
  /\ UNCHANGED <<ledgerTickets, ledgerNextSeq, ticketCache, mutexOwner, mainPc,
                 monitorAccounts, processedTrustLines, ticketSequence1, burstI, rpc,
                 rsnap, revPc, sinceRefill, poolAtRefill>>
  /\ UNCHANGED ignoredTrustSets
  /\ UNCHANGED <<evalVars, wsVars, notifyVars>>

\* One iteration of the burst loop: swapXRPtoToken(..., ticketSequence1, i + 1),
\* then the delay.  The requests of the swap are taken at the call, and the
\* Payment it signs reaches the ledger: applied (the ledger takes it and uses up
\* the ticket, which it must still hold) or not.
BurstStep(a, applied) ==
  /\ bpc[a] = "burst"
  /\ burstI[a] < BurstSize
  /\ applied => ticketSequence1[a] \in ledgerTickets
  /\ burstI' = [burstI EXCEPT ![a] = @ + 1]
  /\ txs' = txs \cup {<<"Payment", a, burstI[a] + 1, ticketSequence1[a]>>}
  /\ IF applied
     THEN consumeTicket(ticketSequence1[a])
     ELSE UNCHANGED ledgerTickets
  /\ UNCHANGED <<ledgerNextSeq, ledgerTrust, ticketCache, mutexOwner, mainPc,
                 monitorAccounts, processedTrustLines, bpc, ticketSequence1, rpc,
                 rsnap, revPc, sinceRefill, poolAtRefill>>
  /\ UNCHANGED ignoredTrustSets
  /\ UNCHANGED <<evalVars, wsVars, notifyVars>>

\* The loop is over: the issuer leaves monitorAccounts and the two timers are set.
BurstEnd(a) ==
  /\ bpc[a] = "burst"
  /\ burstI[a] = BurstSize
  /\ monitorAccounts' = monitorAccounts \ {a}
  /\ rpc' = [rpc EXCEPT ![a] = "timer"]
  /\ revPc' = [revPc EXCEPT ![a] = "timer"]
  /\ bpc' = [bpc EXCEPT ![a] = "done"]
  /\ UNCHANGED <<ledgerVars, ticketCache, mutexOwner, mainPc, processedTrustLines,
                 ticketSequence1, burstI, rsnap, txs, sinceRefill, poolAtRefill>>
  /\ UNCHANGED ignoredTrustSets
  /\ UNCHANGED <<evalVars, wsVars, notifyVars>>

\* setTimeout(..., 10000): updateTicketCache is called.
RefillTimer(a) ==
  /\ rpc[a] = "timer"
  /\ rpc' = [rpc EXCEPT ![a] = "request"]
  /\ UNCHANGED <<ledgerVars, ticketCache, mutexOwner, mainPc, monitorAccounts,
                 processedTrustLines, bpc, ticketSequence1, burstI, rsnap, revPc,
                 txs, sinceRefill, poolAtRefill>>
  /\ UNCHANGED ignoredTrustSets
  /\ UNCHANGED <<evalVars, wsVars, notifyVars>>

\* setTimeout(..., 15000): cancelSpecificTrustLine is called; the timer set for
\* 10000 at the same moment has fired before.
RevokeTimer(a) ==
  /\ revPc[a] = "timer"
  /\ rpc[a] # "timer"
  /\ revPc' = [revPc EXCEPT ![a] = "running"]
  /\ UNCHANGED <<ledgerVars, ticketCache, mutexOwner, mainPc, monitorAccounts,
                 processedTrustLines, bpc, ticketSequence1, burstI, rpc, rsnap, txs,
                 sinceRefill, poolAtRefill>>
  /\ UNCHANGED ignoredTrustSets
  /\ UNCHANGED <<evalVars, wsVars, notifyVars>>

\* cancelSpecificTrustLine resolved, outcome as for setTrustLine.
RevokeDone(a, outcome) ==
  /\ revPc[a] = "running"
  /\ revPc' = [revPc EXCEPT ![a] = "done"]
  /\ ledgerTrust' = IF outcome = "applied" THEN ledgerTrust \ {a} ELSE ledgerTrust
  /\ UNCHANGED <<ledgerTickets, ledgerNextSeq, ticketCache, mutexOwner, mainPc,
                 monitorAccounts, processedTrustLines, bpc, ticketSequence1, burstI,
                 rpc, rsnap, txs, sinceRefill, poolAtRefill>>
  /\ UNCHANGED ignoredTrustSets
  /\ UNCHANGED <<evalVars, wsVars, notifyVars>>

Outcomes == {"applied", "rejected", "unsent"}

BuyInit ==
  /\ ledgerTickets = {}
  /\ ledgerNextSeq = 1
  /\ ledgerTrust = {}
  /\ ticketCache = <<>>
  /\ mutexOwner = ""
  /\ mainPc = "genesis"
  /\ monitorAccounts = {}
  /\ processedTrustLines = {}
  /\ bpc = [a \in Issuers |-> "none"]
  /\ ticketSequence1 = [a \in Issuers |-> 0]
  /\ burstI = [a \in Issuers |-> 0]
  /\ rpc = [r \in RefillTasks |-> "idle"]
  /\ rsnap = [r \in RefillTasks |-> {}]
  /\ revPc = [a \in Issuers |-> "none"]
  /\ txs = {}
  /\ sinceRefill = {}
  /\ poolAtRefill = <<>>
  /\ ignoredTrustSets = {}

\* The steps of the buy sequences and refills, the TrustSet events apart.
BuySteps ==
  \/ Genesis
  \/ MainListen
  \/ \E r \in RefillTasks, ok \in BOOLEAN : RefillAnswer(r, ok)
  \/ \E r \in RefillTasks : RefillAssign(r)
  \/ \E r \in RefillTasks, ok \in BOOLEAN : CreateTicketDone(r, ok)
  \/ \E a \in Issuers, q \in BOOLEAN : OnAccountSet(a, q)
  \/ \E a \in Issuers : MutexAcquire(a)
  \/ \E a \in Issuers : RunExclusive(a)
  \/ \E a \in Issuers, o \in Outcomes : TrustLineDone(a, o)
  \/ \E a \in Issuers, ok \in BOOLEAN : BurstStep(a, ok)
  \/ \E a \in Issuers : BurstEnd(a)
  \/ \E a \in Issuers : RefillTimer(a)
  \/ \E a \in Issuers : RevokeTimer(a)
  \/ \E a \in Issuers, o \in Outcomes : RevokeDone(a, o)

BuyNext ==
  \/ BuySteps
  \/ \E a \in Issuers, l \in BOOLEAN : OnTrustSet(a, l)

BuySeenNext ==
  \/ BuySteps
  \/ \E a \in Issuers, l \in BOOLEAN : OnTrustSetSeen(a, l)

\* ------------------------------------------------------------ utils/webSocketManager.ts
\* The tasks that run getClient: main(), another component, the reconnect chains.
WsTasks == {"main", "comp"} \cup Chains

\* A Client nothing refers to and no handler hangs on plays no part any more.
unreferenced(c, ls, mgr, mainC, mn) ==
  ls[c] = 0 /\ c # mgr /\ c # mainC /\ \A k \in DOMAIN mn : mn[k] # c

\* The Client states with the objects nothing refers to given back.
collect(cs, ls, mgr, mainC, mn) ==
  [c \in Clients |->
     IF cs[c] # "connecting" /\ unreferenced(c, ls, mgr, mainC, mn)
     THEN "free" ELSE cs[c]]

\* new Client(...): the object allocated.
newClient == CHOOSE c \in Clients :
               cstate[c] = "free" /\ \A d \in 1..(c - 1) : cstate[d] # "free"

\* this.client && this.client.isConnected()
isConnected == mgrClient # 0 /\ cstate[mgrClient] = "connected"

\* Mutant: the bound on the attempts is not checked.
exhausted_never(n) == FALSE

\* this.reconnectAttempts >= this.maxReconnectAttempts
exhausted(n) == n >= maxReconnectAttempts

\* getClient up to its await, for a task that finds no connected client:
\* this.client = new Client(...); this.client.connect()
startConnect(task) ==
  /\ cstate' = [cstate EXCEPT ![newClient] = "connecting"]
  /\ mgrClient' = newClient
  /\ mine' = [mine EXCEPT ![task] = newClient]

\* getClient after its await.  ok: connect() resolved, and setupListeners
\* registers on this.client as it is now (a TypeError when it is null, which
\* the catch turns into this.client = null and a throw); ~ok: connect() rejected.
\* The value is TRUE when getClient returns this.client.
returns(ok) == ok /\ mgrClient # 0

afterConnect(task, ok, mainC) ==
  LET cs == [cstate EXCEPT ![mine[task]] = IF ok THEN "connected" ELSE "failed"]
      ls == IF returns(ok) THEN [listeners EXCEPT ![mgrClient] = @ + 1] ELSE listeners
      mgr == IF returns(ok) THEN mgrClient ELSE 0
      mn == [mine EXCEPT ![task] = 0]
  IN /\ listeners' = ls
     /\ mgrClient' = mgr
     /\ mine' = mn
     /\ cstate' = collect(cs, ls, mgr, mainC, mn)

\* main(): webSocketManager.getClient()
MainGetClient ==
  /\ wsMainPc = "start"
  /\ IF isConnected
     THEN /\ mainClient' = mgrClient
          /\ wsMainPc' = "ready"
          /\ UNCHANGED <<cstate, mgrClient, mine>>
     ELSE /\ startConnect("main")
          /\ wsMainPc' = "connecting"
          /\ UNCHANGED mainClient
  /\ UNCHANGED <<listeners, subscribed, reconnectAttempts, compPc, chPc>>
  /\ UNCHANGED pending
  /\ UNCHANGED <<evalVars, buyVars, notifyVars>>

\* main(): getClient settles; a throw ends main() in its catch.
MainConnectSettles(ok) ==
  /\ wsMainPc = "connecting"
  /\ mainClient' = IF returns(ok) THEN mgrClient ELSE 0
  /\ afterConnect("main", ok, mainClient')
  /\ wsMainPc' = IF returns(ok) THEN "ready" ELSE "failed"
  /\ UNCHANGED <<subscribed, reconnectAttempts, compPc, chPc>>
  /\ UNCHANGED pending
  /\ UNCHANGED <<evalVars, buyVars, notifyVars>>

\* main(): setupListeners(client, wallet): the subscribe request and the
\* transaction handler, on the client main() holds; the request throws on a
\* client that is not connected and the catch logs it.
MainSubscribe ==
  /\ wsMainPc = "ready"
  /\ subscribed' = IF cstate[mainClient] = "connected"
                   THEN subscribed \cup {mainClient} ELSE subscribed
  /\ wsMainPc' = "listening"
  /\ UNCHANGED <<cstate, listeners, mgrClient, reconnectAttempts, mainClient, compPc,
                 chPc, mine>>
  /\ UNCHANGED pending
  /\ UNCHANGED <<evalVars, buyVars, notifyVars>>

\* Another component calls getClient (ensureConnected does when there is no
\* connected client).
CompGetClient ==
  /\ compPc = "idle"
  /\ IF isConnected
     THEN /\ compPc' = "returned"
          /\ UNCHANGED <<cstate, mgrClient, mine>>
     ELSE /\ startConnect("comp")
          /\ compPc' = "connecting"
  /\ UNCHANGED <<listeners, subscribed, reconnectAttempts, wsMainPc, mainClient, chPc>>
  /\ UNCHANGED pending
  /\ UNCHANGED <<evalVars, buyVars, notifyVars>>

CompConnectSettles(ok) ==
  /\ compPc = "connecting"
  /\ afterConnect("comp", ok, mainClient)
  /\ compPc' = IF returns(ok) THEN "returned" ELSE "threw"
  /\ UNCHANGED <<subscribed, reconnectAttempts, wsMainPc, mainClient, chPc>>
  /\ UNCHANGED pending
  /\ UNCHANGED <<evalVars, buyVars, notifyVars>>

\* The first part of reconnect(), run once per registered 'disconnected'
\* handler: a handler that finds the bound reached returns, the others count
\* their attempt and wait reconnectDelay.  n handlers start from counter value k.
startedBy(n, k) ==
  Cardinality({j \in 1..n : ~exhausted(k + j - 1)})

freeChains == {n \in 1..Len(ChainOrder) : chPc[ChainOrder[n]] = "free"}

\* The first `n` free activations.
firstFree(n) ==
  {ChainOrder[k] : k \in {m \in freeChains :
                            Cardinality({d \in freeChains : d < m}) < n}}

\* The connection of Client c drops: its 'disconnected' handlers run.
ClientDrops(c) ==
  /\ cstate[c] = "connected"
  /\ LET n == startedBy(listeners[c], reconnectAttempts) IN
     /\ Cardinality(freeChains) >= listeners[c]
     /\ reconnectAttempts' = reconnectAttempts + n
     /\ chPc' = [ch \in Chains |->
                  IF ch \in firstFree(n) THEN "delay"
                  ELSE IF ch \in firstFree(listeners[c]) THEN "gaveup"
                  ELSE chPc[ch]]
  /\ subscribed' = subscribed \ {c}
  /\ cstate' = collect([cstate EXCEPT ![c] = "down"], listeners, mgrClient,
                       mainClient, mine)
  /\ UNCHANGED <<listeners, mgrClient, wsMainPc, mainClient, compPc, mine>>
  /\ pending' = IF pending = c THEN 0 ELSE pending   \* its requests are rejected
  /\ UNCHANGED <<evalVars, buyVars, notifyVars>>

\* The xrpl Client re-establishes its dropped connection by itself and emits
\* 'connected': the handler registered by setupListeners resets the counter.
ClientReconnects(c) ==
  /\ cstate[c] = "down"
  /\ cstate' = [cstate EXCEPT ![c] = "connected"]
  /\ reconnectAttempts' = IF listeners[c] > 0 THEN 0 ELSE reconnectAttempts
  /\ UNCHANGED <<listeners, subscribed, mgrClient, wsMainPc, mainClient, compPc,
                 chPc, mine>>
  /\ UNCHANGED pending
  /\ UNCHANGED <<evalVars, buyVars, notifyVars>>

\* reconnect(): the delay is over, getClient is called.
ChainWakes(ch) ==
  /\ chPc[ch] = "delay"
  /\ IF isConnected
     THEN /\ chPc' = [chPc EXCEPT ![ch] = "end"]
          /\ UNCHANGED <<cstate, mgrClient, mine>>
     ELSE /\ startConnect(ch)
          /\ chPc' = [chPc EXCEPT ![ch] = "connecting"]
  /\ UNCHANGED <<listeners, subscribed, reconnectAttempts, wsMainPc, mainClient,
                 compPc>>
  /\ UNCHANGED pending
  /\ UNCHANGED <<evalVars, buyVars, notifyVars>>

\* reconnect(): getClient settles; on a throw reconnect() calls itself.
ChainConnectSettles(ch, ok) ==
  /\ chPc[ch] = "connecting"
  /\ afterConnect(ch, ok, mainClient)
  /\ IF returns(ok)
     THEN /\ chPc' = [chPc EXCEPT ![ch] = "end"]
          /\ UNCHANGED reconnectAttempts
     ELSE IF exhausted(reconnectAttempts)
          THEN /\ chPc' = [chPc EXCEPT ![ch] = "gaveup"]
               /\ UNCHANGED reconnectAttempts
          ELSE /\ chPc' = [chPc EXCEPT ![ch] = "delay"]
               /\ reconnectAttempts' = reconnectAttempts + 1
  /\ UNCHANGED <<subscribed, wsMainPc, mainClient, compPc>>
  /\ UNCHANGED pending
  /\ UNCHANGED <<evalVars, buyVars, notifyVars>>

\* A buy sequence issues a request (setTrustLine, updateTicketCache,
\* cancelSpecificTrustLine: client.request / autofill / submitAndWait) on the
\* `client` main() passed to buyTokens; on a Client that is not connected the
\* call throws at once.
BuyRequest ==
  /\ wsMainPc = "listening"
  /\ pending = 0
  /\ cstate[mainClient] = "connected"
  /\ pending' = mainClient
  /\ UNCHANGED <<cstate, listeners, subscribed, mgrClient, reconnectAttempts,
                 wsMainPc, mainClient, compPc, chPc, mine>>
  /\ UNCHANGED <<evalVars, buyVars, notifyVars>>

\* The request of the buy sequence is answered.
BuyRequestSettles ==
  /\ pending # 0
  /\ pending' = 0
  /\ UNCHANGED <<cstate, listeners, subscribed, mgrClient, reconnectAttempts,
                 wsMainPc, mainClient, compPc, chPc, mine>>
  /\ UNCHANGED <<evalVars, buyVars, notifyVars>>

WsInit ==
  /\ cstate = [c \in Clients |-> "free"]
  /\ listeners = [c \in Clients |-> 0]
  /\ subscribed = {}
  /\ mgrClient = 0
  /\ reconnectAttempts = 0
  /\ wsMainPc = "start"
  /\ mainClient = 0
  /\ compPc = "idle"
  /\ chPc = [ch \in Chains |-> "free"]
  /\ mine = [k \in WsTasks |-> 0]
  /\ pending = 0

WsNext ==
  \/ MainGetClient
  \/ \E ok \in BOOLEAN : MainConnectSettles(ok)
  \/ MainSubscribe
  \/ CompGetClient
  \/ \E ok \in BOOLEAN : CompConnectSettles(ok)
  \/ \E c \in Clients : ClientDrops(c)
  \/ \E c \in Clients : ClientReconnects(c)
  \/ \E ch \in Chains : ChainWakes(ch)
  \/ \E ch \in Chains, ok \in BOOLEAN : ChainConnectSettles(ch, ok)

\* The manager together with the requests of the buy sequences.
WsUseNext ==
  \/ WsNext
  \/ BuyRequest
  \/ BuyRequestSettles

\* ------------------------------------------------------------ utils/discord.ts
\* Mutant: shift() leaves the event in the queue.
queueShift_keep(q) == q

\* this.queue.shift(): the queue that is left.
queueShift(q) == Tail(q)

\* Mutant: processQueue does not look at isProcessing.
busy_never(flag) == FALSE

\* if (this.isProcessing) return;
busy(flag) == flag

\* Mutant: the loop ends after every event.
drained_always(q) == TRUE

\* The negation of the loop condition: this.queue.length > 0
drained(q) == Len(q) = 0

\* The first free activation.
freeLoop ==
  LoopOrder[CHOOSE n \in 1..Len(LoopOrder) :
              /\ wpc[LoopOrder[n]] = "free"
              /\ \A m \in 1..(n - 1) : wpc[LoopOrder[m]] # "free"]

\* The loop of processQueue at its condition, run by activation w on queue q:
\* the next event is shifted and posted, or the loop ends and the flag is reset.
loopHead(w, q) ==
  IF ~drained(q)
  THEN /\ queue' = queueShift(q)
       /\ attempts' = Append(attempts, Head(q))
       /\ wpc' = [wpc EXCEPT ![w] = "post"]
       /\ isProcessing' = TRUE
  ELSE /\ queue' = q
       /\ wpc' = [wpc EXCEPT ![w] = "free"]
       /\ isProcessing' = FALSE
       /\ UNCHANGED attempts

\* addToQueue(webhookUrl, payload), called by sendMessageBuy / sendMessageSell:
\* the push and the synchronous part of processQueue.
AddToQueue ==
  /\ enqueued < MaxEvents
  /\ enqueued' = enqueued + 1
  /\ IF busy(isProcessing)
     THEN /\ queue' = Append(queue, enqueued + 1)
          /\ UNCHANGED <<isProcessing, wpc, attempts, starts>>
     ELSE /\ \E n \in 1..Len(LoopOrder) : wpc[LoopOrder[n]] = "free"
          /\ loopHead(freeLoop, Append(queue, enqueued + 1))
          /\ starts' = starts + 1
  /\ UNCHANGED results
  /\ UNCHANGED <<evalVars, buyVars, wsVars>>

\* axios.post settled: resolved (ok) or rejected, which the catch logs; the
\* pacing sleep begins.
PostSettles(w, ok) ==
  /\ wpc[w] = "post"
  /\ wpc' = [wpc EXCEPT ![w] = "sleep"]
  /\ results' = Append(results, ok)
  /\ UNCHANGED <<queue, isProcessing, enqueued, attempts, starts>>
  /\ UNCHANGED <<evalVars, buyVars, wsVars>>

\* sleep(2000) is over: the loop condition is evaluated again.
SleepDone(w) ==
  /\ wpc[w] = "sleep"
  /\ loopHead(w, queue)
  /\ UNCHANGED <<enqueued, results, starts>>
  /\ UNCHANGED <<evalVars, buyVars, wsVars>>

NotifyInit ==
  /\ queue = <<>>
  /\ isProcessing = FALSE
  /\ wpc = [w \in Loops |-> "free"]
  /\ enqueued = 0
  /\ attempts = <<>>
  /\ results = <<>>
  /\ starts = 0

NotifyNext ==
  \/ AddToQueue
  \/ \E w \in Loops, ok \in BOOLEAN : PostSettles(w, ok)
  \/ \E w \in Loops : SleepDone(w)

\* ------------------------------------------------------------ the store, called directly
\* add(currency, issuer, wallet, ...) called for key k: the record is written
\* and sendMessageBuy called when the key is new, nothing happens otherwise.
StoreAdd(k, buyAmount, tokens) ==
  /\ profits' = add(profits, k, buyAmount, tokens)
  /\ storeCall' = IF profits' # profits
                  THEN <<"add", k, "created", TRUE>>
                  ELSE <<"add", k, "noop", FALSE>>
  /\ UNCHANGED <<env, evPc, data, t, i, tokenValue, passFired, passVars, sellVars>>
  /\ UNCHANGED <<buyVars, wsVars, notifyVars>>

\* update(currency, issuer, wallet, ...) called for key k: the record found is
\* written and sendMessageSell called, or the Error is thrown.
StoreUpdate(k, sellAmount, tokensBalance, field) ==
  /\ IF found(profits, k)
     THEN /\ profits' = update(profits, k, sellAmount, tokensBalance, field)
          /\ storeCall' = <<"update", k, "updated", TRUE>>
     ELSE /\ UNCHANGED profits
          /\ storeCall' = <<"update", k, "not found", FALSE>>
  /\ UNCHANGED <<env, evPc, data, t, i, tokenValue, passFired, passVars, sellVars>>
  /\ UNCHANGED <<buyVars, wsVars, notifyVars>>

\* remove(currency, issuer, wallet) called for key k.
StoreRemove(k) ==
  /\ profits' = remove(profits, k)
  /\ storeCall' = <<"remove", k, "removed", FALSE>>
  /\ UNCHANGED <<env, evPc, data, t, i, tokenValue, passFired, passVars, sellVars>>
  /\ UNCHANGED <<buyVars, wsVars, notifyVars>>

StoreNext ==
  \/ \E k \in Keys, buyAmount \in XrpPaid, tokens \in TokensDelivered :
       StoreAdd(k, buyAmount, tokens)
  \/ \E k \in Keys, sellAmount \in SellResults, tokensBalance \in StoreBalances,
        field \in StoreFields : StoreUpdate(k, sellAmount, tokensBalance, field)
  \/ \E k \in Keys : StoreRemove(k)

EvalInit ==
  /\ env = NoEnv
  /\ profits = <<>>
  /\ evPc = "boot"
  /\ data = <<>>
  /\ t = 0
  /\ i = 0
  /\ tokenValue = 0
  /\ passFired = {}
  /\ storeCall = <<"none", "", "", FALSE>>
  /\ timers = 0
  /\ inFlight = 0
  /\ sellResult = -1
  /\ sent = {}
  /\ ledgerSells = {}
  /\ realized = [k \in Keys |-> 0]

\* infoAmm resolves with a price at or above the threshold of the lowest
\* unachieved slot of the position.
PriceFetchedAbove ==
  /\ evPc = "price"
  /\ \E p \in Prices :
       /\ lowestUnachieved(data[t]) # 0 =>
            targetReached(data[t], lowestUnachieved(data[t]), p)
       /\ PriceFetched(p)

\* What a sell returns where only failure or success matters: 0, or proceeds.
RetryResults == {0, MaxProceeds}

\* The evaluator while every price fetched is at or above the threshold.
EvalRetryNext ==
  \/ LoadConfig
  \/ \E k \in Keys, b \in XrpPaid, n \in TokensDelivered : NewToken(k, b, n)
  \/ StartPass
  \/ PriceFetchedAbove
  \/ \E r \in RetryResults : SellReturned(r)

EvalNext ==
  \/ LoadConfig
  \/ \E k \in Keys, b \in XrpPaid, n \in TokensDelivered : NewToken(k, b, n)
  \/ StartPass
  \/ \E p \in Prices : PriceFetched(p)
  \/ \E r \in SellResults : SellReturned(r)

\* The evaluator, with the ledger's side of the sells on record.
EvalSeenNext ==
  \/ LoadConfig
  \/ \E k \in Keys, b \in XrpPaid, n \in TokensDelivered : NewToken(k, b, n)
  \/ StartPass
  \/ \E p \in Prices : PriceFetched(p)
  \/ \E r \in SellResults, applied \in BOOLEAN : SellReturnedSeen(r, applied)

Init == EvalInit /\ BuyInit /\ WsInit /\ NotifyInit

SpecEval == Init /\ [][EvalNext]_vars

SpecEvalSeen == Init /\ [][EvalSeenNext]_vars

\* The timer of runProcessTokens fires and the requests of a pass settle; of the
\* sells of a position, tried again and again, one comes back with proceeds.
EvalRetryFairness ==
  /\ WF_vars(StartPass)
  /\ WF_vars(PriceFetchedAbove)
  /\ WF_vars(\E r \in RetryResults : SellReturned(r))
  /\ \A k \in Keys :
       SF_vars(\E r \in RetryResults :
                 r > 0 /\ evPc = "sell" /\ data[t].key = k /\ SellReturned(r))

SpecEvalRetry == Init /\ [][EvalRetryNext]_vars /\ EvalRetryFairness

SpecStore == Init /\ [][StoreNext]_vars

SpecBuy == Init /\ [][BuyNext]_vars

\* The timers set by buyTokens fire, and the requests, the mutex and the burst
\* loop of a buy sequence in progress go on; which transactions arrive is left
\* to the ledger.
BuyFairness ==
  /\ \A r \in RefillTasks :
       /\ WF_vars(\E ok \in BOOLEAN : RefillAnswer(r, ok))
       /\ WF_vars(RefillAssign(r))
       /\ WF_vars(\E ok \in BOOLEAN : CreateTicketDone(r, ok))
  /\ \A a \in Issuers :
       /\ WF_vars(MutexAcquire(a))
       /\ WF_vars(RunExclusive(a))
       /\ WF_vars(\E o \in Outcomes : TrustLineDone(a, o))
       /\ WF_vars(\E ok \in BOOLEAN : BurstStep(a, ok))
       /\ WF_vars(BurstEnd(a))
       /\ WF_vars(RefillTimer(a))
       /\ WF_vars(RevokeTimer(a))
       /\ WF_vars(\E o \in Outcomes : RevokeDone(a, o))

SpecBuyFair == SpecBuy /\ BuyFairness

SpecBuySeen == Init /\ [][BuySeenNext]_vars

SpecWs == Init /\ [][WsNext]_vars

SpecWsUse == Init /\ [][WsUseNext]_vars

\* The timer of a reconnect() delay fires and a connect() settles.
WsFairness ==
  \A ch \in Chains :
    /\ WF_vars(ChainWakes(ch))
    /\ WF_vars(\E ok \in BOOLEAN : ChainConnectSettles(ch, ok))

SpecWsFair == SpecWs /\ WsFairness

SpecNotify == Init /\ [][NotifyNext]_vars

\* A post settles (resolved or rejected) and the timer of a sleep fires.
NotifyFairness ==
  \A w \in Loops :
    /\ WF_vars(\E ok \in BOOLEAN : PostSettles(w, ok))
    /\ WF_vars(SleepDone(w))

SpecNotifyFair == SpecNotify /\ NotifyFairness

\* ------------------------------------------------------------ properties
\* C1: in every state of the store, for every position and every slot s > 1,
\* slot s is marked achieved only if slot s - 1 is.
SequentialLadder ==
  \A n \in 1..Len(profits) : \A s \in 2..NumTargets :
    profits[n].achieved[s] => profits[n].achieved[s - 1]

\* A position whose third slot was marked after a pass.
SequentialLadder_witness ==
  \E n \in 1..Len(profits) : profits[n].achieved[3] /\ evPc = "idle"

\* C2: within one pass at most one slot of a position goes from unachieved to
\* achieved, and it is the lowest unachieved slot of the position.
OneSlotPerPass ==
  /\ \A x \in passFired, y \in passFired : x[1] = y[1] => x = y
  /\ \A x \in passFired : x[2] = x[3]

\* A slot fired while the price also was at or above the (equal) thresholds of
\* the later slots, which stayed unachieved.
OneSlotPerPass_witness ==
  \E x \in passFired : \E n \in 1..Len(profits) :
    /\ profits[n].key = x[1]
    /\ x[4]
    /\ profits[n].tokensBalance > 0
    /\ ~profits[n].achieved[x[2] + 1]
    /\ evPc = "idle"

\* C3: from one state to the next the tokensBalance of a stored position never
\* increases.
BalanceNonIncreasing ==
  [][\A n \in 1..Len(profits) : \A m \in 1..Len(profits') :
       profits'[m].key = profits[n].key
         => profits'[m].tokensBalance <= profits[n].tokensBalance]_vars

\* A position whose balance was lowered twice.
BalanceNonIncreasing_witness ==
  \E n \in 1..Len(profits) :
    /\ profits[n].achieved[2]
    /\ profits[n].tokensBalance < profits[n].totalTokensInicial

\* ---------------------------------------------------------------- ticket reservation
Min(x, y) == IF x <= y THEN x ELSE y

\* The callers served since the pool was last replaced that received a ticket.
served == {a \in sinceRefill : ticketSequence1[a] # 0}

\* C4: of the N callers of getTicketFromCache served from a pool that held M
\* tickets, with no refill in between, exactly min(M, N) received a ticket, the
\* tickets received are pairwise distinct members of that pool, and the other
\* callers received null.
ReserveExclusive ==
  /\ Cardinality(served) = Min(Len(poolAtRefill), Cardinality(sinceRefill))
  /\ \A a, b \in served : a # b => ticketSequence1[a] # ticketSequence1[b]
  /\ \A a \in served : ticketSequence1[a] \in Range(poolAtRefill)

\* Two callers in flight at once on a pool of one ticket: one holds the
\* ticket, the other received null.
ReserveExclusive_witness ==
  /\ sinceRefill = Issuers
  /\ Len(poolAtRefill) = 1
  /\ Cardinality(served) = 1
  /\ \A a \in Issuers : bpc[a] = "trust"

\* C5: a ticket handed to a caller is not in the pool again and is not held
\* by a second caller, a refill that ran while the ledger still listed the
\* ticket included.
HandedOutStaysOut ==
  \A a \in Issuers :
    ticketSequence1[a] # 0 =>
      /\ ticketSequence1[a] \notin Range(ticketCache)
      /\ \A b \in Issuers \ {a} : ticketSequence1[b] # ticketSequence1[a]

\* C6: no two buy transactions submitted carry the same ticket.
OneTicketPerBuy ==
  \A x, y \in txs :
    (x[1] = "Payment" /\ y[1] = "Payment" /\ x # y) => x[4] # y[4]

\* C7: a buy attempt whose reservation found the pool empty submits no
\* transaction of any kind, and one that received a ticket has submitted its
\* buys by the time it ends.
EmptyPoolSkips ==
  \A a \in Issuers :
    /\ (bpc[a] \in {"burst", "done"} /\ ticketSequence1[a] = 0) =>
         \A x \in txs : x[2] # a
    /\ (bpc[a] = "done" /\ ticketSequence1[a] # 0) =>
         \E x \in txs : x[1] = "Payment" /\ x[2] = a

\* ------------------------------------------------------------------ session supervisor
\* C8: the callers of getClient that wait while a connection attempt is in
\* flight all wait for that one attempt: there is never a second attempt in
\* flight, and the session the manager holds is the one being awaited.
SingleConnectionAttempt ==
  /\ Cardinality({c \in Clients : cstate[c] = "connecting"}) <= 1
  /\ \A k \in WsTasks : mine[k] # 0 => mine[k] = mgrClient

\* C9: once main() has subscribed and a reconnect() has succeeded after a
\* drop, a new session that getClient reports as connected carries the
\* transactions subscription and handler.
ResubscribedOnReconnect ==
  (/\ wsMainPc = "listening"
   /\ \E ch \in Chains : chPc[ch] = "end"
   /\ isConnected
   /\ mgrClient # mainClient) => mgrClient \in subscribed

TerminalAfterExhaustion ==
  [][(\E ch \in Chains : chPc[ch] = "gaveup") =>
       \A c \in Clients : cstate'[c] = "connecting" => cstate[c] = "connecting"]_vars

\* ----------------------------------------------------------- notification dispatcher
\* C12: the events whose delivery was attempted, followed by the events still
\* waiting, are the events enqueued, each once and in enqueue order.
ExactlyOnceInOrder ==
  attempts \o queue = [k \in 1..enqueued |-> k]

\* Three events attempted in order while a fourth, enqueued during the
\* draining, waits.
ExactlyOnceInOrder_witness ==
  /\ Len(attempts) >= 3
  /\ Len(queue) >= 1

\* C13: a delivery begins only when no post is in flight and no pacing sleep
\* is pending, other than the sleep that ends in this very step; at most one
\* post is in flight.
PacedOneAtATime ==
  [][/\ Len(attempts') > Len(attempts) =>
          \A w \in Loops : \/ wpc[w] = "free"
                           \/ wpc[w] = "sleep" /\ wpc'[w] = "post"
     /\ Cardinality({w \in Loops : wpc'[w] = "post"}) <= 1]_vars

\* A delivery failed and the next one has begun.
PacedOneAtATime_witness ==
  \E k \in 1..Len(results) : ~results[k] /\ Len(attempts) > k

\* C14: an event waiting in the queue has a worker draining the queue, and
\* every event enqueued is eventually attempted.
NeverStranded ==
  /\ [](Len(queue) > 0 => isProcessing /\ \E w \in Loops : wpc[w] # "free")
  /\ \A e \in 1..MaxEvents :
       (enqueued >= e) ~> (\E k \in 1..Len(attempts) : attempts[k] = e)

\* The worker went idle and was started again, a delivery failed, and all
\* the events enqueued were attempted.
NeverStranded_witness ==
  /\ starts >= 2
  /\ \E k \in 1..Len(results) : ~results[k]
  /\ Len(attempts) = enqueued
  /\ ~isProcessing

\* ----------------------------------------------------------------- acquisition trigger
\* C15: a buy sequence is started for an issuer only if none was started for
\* it before, whatever AccountSet and TrustSet events arrive.
OneSequencePerIssuer ==
  [][\A a \in Issuers : (bpc'[a] = "lock" /\ bpc[a] # "lock") => bpc[a] = "none"]_vars

\* An issuer whose buy sequence has run to its end is listed again by a new
\* AccountSet.
OneSequencePerIssuer_witness ==
  \E a \in Issuers :
    /\ bpc[a] = "done"
    /\ burstI[a] = BurstSize
    /\ a \in monitorAccounts
    /\ a \in processedTrustLines

\* ------------------------------------------------------------------------ the store
\* C16: update called for a key that is not in the store fails with the
\* not-found error, leaves the file as it is and sends no notification.
UpdateNotFound ==
  [][(storeCall'[1] = "update" /\ ~exist(profits, storeCall'[2])) =>
       /\ storeCall'[3] = "not found"
       /\ profits' = profits
       /\ ~storeCall'[4]]_vars

\* update was called for a key that is absent while another record is stored.
UpdateNotFound_witness ==
  /\ storeCall[1] = "update"
  /\ storeCall[3] = "not found"
  /\ Len(profits) > 0

\* C17: add called for a key that exists leaves the file as it is and sends
\* no buy notification, and the file never holds two records with one key.
AddIdempotent ==
  [][/\ (storeCall'[1] = "add" /\ exist(profits, storeCall'[2])) =>
          /\ profits' = profits
          /\ ~storeCall'[4]
     /\ \A m, n \in 1..Len(profits') :
          m # n => profits'[m].key # profits'[n].key]_vars

\* add was called for a key whose record has been updated since it was
\* created.
AddIdempotent_witness ==
  /\ storeCall[1] = "add"
  /\ storeCall[3] = "noop"
  /\ \E n \in 1..Len(profits) :
       /\ profits[n].key = storeCall[2]
       /\ profits[n].achieved[1]
       /\ profits[n].tokensBalance < profits[n].totalTokensInicial

\* ------------------------------------------------------------------------- evaluator
\* C18: at most one pass of processTokens is in flight, no call of
\* runProcessTokens is due while a pass is in flight, and once a pass has
\* settled the next call is scheduled.
SingleFlightPasses ==
  /\ inFlight <= 1
  /\ inFlight = 1 => timers = 0
  /\ (evPc # "boot" /\ inFlight = 0) => timers = 1

\* A pass that marked a slot has settled and the next call is scheduled.
SingleFlightPasses_witness ==
  /\ evPc = "idle"
  /\ passFired # {}
  /\ timers = 1

\* C19: a position whose price fetch failed (infoAmm gave 0) is skipped for
\* the pass: no sell is submitted for it, whatever its outlay and targets.
FetchFailureSkips ==
  evPc = "sell" => tokenValue > 0

\* C20: a slot stored as achieved stays achieved: no step of the evaluator
\* removes the record or writes the flag back to unachieved.
AchievedPermanent ==
  [][\A n \in 1..Len(profits) :
       /\ Len(profits') >= n
       /\ profits'[n].key = profits[n].key
       /\ \A slot \in Slots :
            profits[n].achieved[slot] => profits'[n].achieved[slot]]_vars

\* A later pass runs on a position with two slots achieved, marked by two
\* updates.
AchievedPermanent_witness ==
  /\ evPc = "price"
  /\ \E n \in 1..Len(profits) :
       /\ profits[n].achieved[1]
       /\ profits[n].achieved[2]
       /\ ~profits[n].achieved[3]

\* ----------------------------------------------------------------- ticket refill
\* C21: whenever a reservation has left the pool below the low-water mark, the
\* pool found empty included, updateTicketCache is called at some later time.
RefillWhenLow ==
  \A a \in Issuers :
    (bpc[a] = "trust" /\ Len(ticketCache) < LowWaterMark)
      ~> (\E r \in RefillTasks : rpc[r] = "request")

\* C22: the pool is replaced only while no reservation holds the mutex of the
\* pop, and the mutex is held only by a task at its in-memory step, never by
\* one waiting for the network.
ReplaceExcludesReserve ==
  /\ [][\A r \in RefillTasks :
         (rpc[r] = "response" /\ rpc'[r] # "response") => mutexOwner = ""]_vars
  /\ [](\A a \in Issuers : mutexOwner = a => bpc[a] = "excl")

\* C23: a trust line established for an issuer by a buy sequence is followed by
\* a call of updateTicketCache and by a revocation attempt for that issuer, the
\* refill timer firing before the revocation timer.
GrantThenRevoke ==
  /\ \A a \in Issuers :
       (a \in ledgerTrust) ~> (/\ rpc[a] \in {"request", "response", "create", "end"}
                              /\ revPc[a] \in {"running", "done"})
  /\ [](\A a \in Issuers : revPc[a] \in {"running", "done"} => rpc[a] # "timer")

\* ------------------------------------------------------------------ borrowed session
\* C24: while the manager holds a connected session, a request of a buy
\* sequence that is in flight is in flight on that session, not on one that
\* was dropped or replaced.
BorrowedSessionCurrent ==
  (pending # 0 /\ isConnected) => pending = mgrClient

\* ------------------------------------------------------------------------ liquidation
\* A step in which the sell awaited by processTokens returned.
sellReturns == evPc = "sell" /\ (evPc' # "sell" \/ i' # i)

\* C25: when the sell of slot i returns proceeds p > 0, the stored record of
\* the position gets slot i achieved, its balance lowered by exactly
\* totalTokensInicial times the sell fraction of the slot and its sellAmount
\* raised by exactly p; its other fields and flags and the other records stay
\* as they are, and one sell notification, carrying the balance then stored,
\* is handed to the queue.
LiquidationRecorded ==
  [][(sellReturns /\ sellResult' > 0) =>
       LET index == findIndex(profits, data[t].key)
           sold == (profits[index].totalTokensInicial * configTARGET_PERC(i)) \div 100
       IN /\ ~profits[index].achieved[i]
          /\ profits' = [profits EXCEPT
                           ![index].achieved[i] = TRUE,
                           ![index].tokensBalance = @ - sold,
                           ![index].sellAmount = @ + sellResult']
          /\ Cardinality(sent') = Cardinality(sent) + 1
          /\ \E m \in sent' \ sent :
               /\ m[1] = profits[index].key
               /\ m[2] = i
               /\ m[4] = profits'[index].tokensBalance
               /\ m[5] = profits'[index].sellAmount]_vars

\* The second slot of a position was sold with positive proceeds after the
\* first, and the notification of it was handed over.
LiquidationRecorded_witness ==
  /\ sellResult > 0
  /\ \E m \in sent : \E n \in 1..Len(profits) :
       /\ m[2] = 2
       /\ profits[n].key = m[1]
       /\ profits[n].achieved[2]
       /\ profits[n].sellAmount >= 2

\* C26: when the sell of a slot fails or returns no positive proceeds, the
\* file is left as it is, the slot stays unachieved, no notification is
\* handed over and no further sell is started for the position in the pass.
FailedSellChangesNothing ==
  [][(sellReturns /\ sellResult' <= 0) =>
       /\ profits' = profits
       /\ ~profits'[findIndex(profits', data[t].key)].achieved[i]
       /\ sent' = sent
       /\ passFired' = passFired
       /\ evPc' # "sell"
       /\ t' # t]_vars

\* The only position has its first slot achieved from an earlier pass; the
\* sell of its second slot returned 0 and the pass is over.
FailedSellChangesNothing_witness ==
  /\ sellResult = 0
  /\ sent = {}
  /\ evPc = "idle"
  /\ Len(profits) = 1
  /\ profits[1].achieved[1]
  /\ ~profits[1].achieved[2]
  /\ profits[1].tokensBalance > 0

\* C27: a sell is in flight for a slot only if the price fetched reached the
\* initial unit price times the multiplier of the slot, the stored balance of
\* the position is above 0, and all the earlier slots are achieved; and a
\* record whose balance is 0 is never written again.
SellOnlyWhenDue ==
  /\ [](evPc = "sell" =>
          LET rec == profits[findIndex(profits, data[t].key)] IN
            /\ tokenValue * rec.totalTokensInicial >= rec.buyAmount * configTARGET(i)
            /\ rec.tokensBalance > 0
            /\ \A slot \in 1..(i - 1) : rec.achieved[slot]
            /\ ~rec.achieved[i])
  /\ [][\A n \in 1..Len(profits) :
          profits[n].tokensBalance = 0 => profits'[n] = profits[n]]_vars

\* The first position of the pass has been sold down to balance 0 and was
\* passed over; the second slot of the next position is being sold.
SellOnlyWhenDue_witness ==
  /\ evPc = "sell"
  /\ t = 2
  /\ i = 2
  /\ data[1].tokensBalance = 0
  /\ data[1].achieved[2]

\* C28: a slot that is the lowest unachieved slot of a position with a balance
\* above 0 is eventually achieved, after whatever number of failed sells, when
\* the prices fetched stay at or above its threshold and a sell of the
\* position eventually returns proceeds.
RetriedUntilAchieved ==
  \A k \in Keys : \A slot \in Slots :
    (\E n \in 1..Len(profits) :
       /\ profits[n].key = k
       /\ lowestUnachieved(profits[n]) = slot
       /\ profits[n].tokensBalance > 0)
    ~> (\E n \in 1..Len(profits) : profits[n].key = k /\ profits[n].achieved[slot])

\* The last sell, of the second slot of the only position, returned nothing,
\* and in a later pass the sell of that slot is in flight again.
RetriedUntilAchieved_witness ==
  /\ evPc = "sell"
  /\ sellResult = 0
  /\ sent = {}
  /\ Len(profits) = 1
  /\ i = 2
  /\ lowestUnachieved(profits[1]) = 2

\* C29: a sell is in flight for a slot only if the .env file sets the
\* multiplier and the sell fraction of that slot.
FailsClosedWhenUnset ==
  evPc = "sell" => (env.TARGET[i] # NaN /\ env.PERC[i] # NaN)

\* C30: when updateTicketCache assigns the answer of the ledger, the pool is
\* exactly the ticket sequences of the answer, ascending and without
\* duplicates, and createTicket is called if and only if fewer than 10 were
\* answered; the pool is ascending at all times and a reservation receives its
\* lowest ticket.
RefillReplacesSorted ==
  /\ [][\A r \in RefillTasks :
         (rpc[r] = "response" /\ rpc'[r] # "response") =>
           /\ Range(ticketCache') = rsnap[r]
           /\ Len(ticketCache') = Cardinality(rsnap[r])
           /\ (rpc'[r] = "create") <=> (Cardinality(rsnap[r]) < LowWaterMark)]_vars
  /\ [](\A m, n \in 1..Len(ticketCache) : m < n => ticketCache[m] < ticketCache[n])
  /\ [][\A a \in Issuers :
         (bpc[a] = "excl" /\ bpc'[a] # "excl" /\ Len(ticketCache) > 0) =>
           /\ ticketSequence1'[a] \in Range(ticketCache)
           /\ \A x \in Range(ticketCache) : ticketSequence1'[a] <= x
           /\ Range(ticketCache') = Range(ticketCache) \ {ticketSequence1'[a]}]_vars

\* A refill after a buy sequence found nine tickets on the ledger and called
\* createTicket; the sequence had reserved the lowest of ten.
RefillReplacesSorted_witness ==
  \E r \in Issuers :
    /\ rpc[r] = "create"
    /\ Len(ticketCache) = LowWaterMark - 1
    /\ ticketSequence1[r] = 1

\* ------------------------------------------------------------------ refill failures
\* C31: a failure of the account_objects request or of the ticket creation ends
\* updateTicketCache by a return, never by a throw, and a refill whose
\* account_objects request failed leaves the pool exactly as it was.
RefillErrorsContained ==
  /\ [][\A r \in RefillTasks :
         /\ (rpc[r] = "request" /\ rpc'[r] \notin {"request", "response"}) =>
              /\ rpc'[r] = "end"
              /\ ticketCache' = ticketCache
         /\ (rpc[r] = "create" /\ rpc'[r] # "create") => rpc'[r] = "end"]_vars
  /\ [](\A r \in RefillTasks :
         rpc[r] \in {"idle", "timer", "request", "response", "create", "end"})

\* The refill a buy sequence scheduled has returned without replacing the pool
\* the sequence reserved from, which still holds tickets: its request failed.
RefillErrorsContained_witness ==
  \E a \in Issuers :
    /\ rpc[a] = "end"
    /\ a \in sinceRefill
    /\ ticketSequence1[a] # 0
    /\ Len(ticketCache) > 0

\* ------------------------------------------------------------- unmonitored issuers
\* C32: the handling of a TrustSet event whose issuer is not in
\* monitorAccounts changes neither monitorAccounts nor processedTrustLines,
\* starts no buy sequence, reserves no ticket and submits no transaction.
UnmonitoredGrantIgnored ==
  [][(ignoredTrustSets' # ignoredTrustSets) =>
       UNCHANGED <<monitorAccounts, processedTrustLines, bpc, ticketCache,
                   mutexOwner, ticketSequence1, burstI, txs, ledgerVars, rpc,
                   revPc>>]_vars

\* A TrustSet event arrived for an issuer that was not monitored, while the
\* pool held tickets and the other issuer was monitored; no sequence was
\* started for it.
UnmonitoredGrantIgnored_witness ==
  \E a \in Issuers :
    /\ a \in ignoredTrustSets
    /\ a \notin processedTrustLines
    /\ bpc[a] = "none"
    /\ Len(ticketCache) > 0
    /\ monitorAccounts = Issuers \ {a}

\* ------------------------------------------------------------------ tickets of sells
\* C33: the transaction of a sell in flight carries a ticket, reserved from
\* the ticket cache for this submission.
SellUsesFreshTicket ==
  evPc = "sell" => swapTxData(data[t], i).TicketSequence # 0

\* --------------------------------------------------------------- attempts per outage
\* C34: whenever the manager holds a connected session and no reconnect() or
\* connection attempt is under way, the attempt counter is 0, so that the next
\* drop has all of maxReconnectAttempts attempts.
CounterResetOnRecovery ==
  (/\ isConnected
   /\ \A ch \in Chains : chPc[ch] \notin {"delay", "connecting"}
   /\ \A k \in WsTasks : mine[k] = 0) => reconnectAttempts = 0

\* ------------------------------------------------------------------ the ladder's pairs
\* C35: the sell of slot i, when the .env file sets TARGETi and TARGETi_PERC,
\* is started only at a price that reached the initial unit price times
\* TARGETi / 100, and sells totalTokensInicial times TARGETi_PERC / 100.
LadderUsesOwnPair ==
  (evPc = "sell" /\ env.TARGET[i] # NaN /\ env.PERC[i] # NaN) =>
    /\ tokenValue * data[t].totalTokensInicial >= data[t].buyAmount * env.TARGET[i]
    /\ swapTxData(data[t], i).SendMax =
         (data[t].totalTokensInicial * env.PERC[i]) \div 100

\* ------------------------------------------------------------------ balances
\* C36: the tokensBalance of every stored position is at least 0.
BalanceNeverNegative ==
  \A n \in 1..Len(profits) : profits[n].tokensBalance >= 0

\* ------------------------------------------------------------------ one sell per slot
\* C37: no sell is in flight for a slot of a position whose sell transaction
\* the ledger has applied before.
SlotSoldOnce ==
  evPc = "sell" => <<data[t].key, i>> \notin ledgerSells

\* ------------------------------------------------------------------ conservation
\* The sum of f over the set S.
RECURSIVE sumOver(_, _)
sumOver(S, f) ==
  IF S = {} THEN 0
  ELSE LET x == CHOOSE y \in S : TRUE IN f[x] + sumOver(S \ {x}, f)

\* C38: for every stored position, tokensBalance is totalTokensInicial minus
\* the sum, over its achieved slots, of totalTokensInicial times the sell
\* fraction of the slot, and sellAmount is the sum of what the sells that
\* marked its achieved slots returned.
UnitsConserved ==
  \A n \in 1..Len(profits) :
    LET rec == profits[n]
        done == {slot \in Slots : rec.achieved[slot]}
    IN /\ rec.tokensBalance = rec.totalTokensInicial -
            sumOver(done, [slot \in Slots |->
                      (rec.totalTokensInicial * configTARGET_PERC(slot)) \div 100])
       /\ rec.sellAmount = realized[rec.key]

\* A position with three slots sold, 30 of its 100 tokens each time; the last
\* sell of the position returned nothing.
UnitsConserved_witness ==
  \E n \in 1..Len(profits) :
    /\ profits[n].achieved[3]
    /\ ~profits[n].achieved[4]
    /\ profits[n].tokensBalance = 10
    /\ profits[n].sellAmount = 3
    /\ Len(profits) = 1
    /\ sellResult = 0

\* ------------------------------------------------------------------ burst after grant
\* C39: a buy sequence whose setTrustLine did not establish the trust line
\* submits no buy transaction for the issuer.
BurstAfterGrant ==
  \A a \in Issuers :
    (/\ bpc[a] \in {"burst", "done"}
     /\ revPc[a] \in {"none", "timer"}
     /\ a \notin ledgerTrust) =>
      \A x \in txs : ~(x[1] = "Payment" /\ x[2] = a)

====
